---- MODULE Spec2Model ----
(***************************************************************************)
(* webhoster middleware: the content transcoder (bufferencoder.js) and the *)
(* CORS decision middleware (cors.js) as state machines.                    *)
(*                                                                         *)
(* Strings are sequences of tokens.  The tokens ";", "=", ",", " " and the *)
(* double quote stand for themselves; every other token is a run of        *)
(* characters that contains none of them.                                  *)
(***************************************************************************)
EXTENDS Integers, Sequences, FiniteSets, TLC

(* ------------------------------ bounds -------------------------------- *)

\* chunks the application writes to one response
MaxChunks == 2
\* changes another party makes to the content-type header of one response
MaxHeaderChanges == 1
\* chunks the application writes to two concurrent responses together
MaxTotalChunks == 3
\* entries of a CORS allow-list
MaxAllow == 2

(* ------------------------------ strings ------------------------------- *)

\* JS null and undefined, where a string is expected
Null == <<"<null>">>
Undefined == <<"<undefined>">>
DQ == "\""

\* JS truthiness of a string-or-null value
Truthy(x) == x # Null /\ x # Undefined /\ x # <<>>

LowerTok(t) ==
  CASE t = "CHARSET" -> "charset"
    [] t = "Charset" -> "charset"
    [] t = "ISO-8859-1" -> "iso-8859-1"
    [] t = "UTF-16LE" -> "utf-16le"
    [] t = "HEX" -> "hex"
    [] t = "Expires" -> "expires"
    [] t = "Max-Age" -> "max-age"
    [] t = "MAX-AGE" -> "max-age"
    [] t = "Domain" -> "domain"
    [] t = "Path" -> "path"
    [] t = "Secure" -> "secure"
    [] t = "SECURE" -> "secure"
    [] t = "HttpOnly" -> "httponly"
    [] t = "SameSite" -> "samesite"
    [] t = "HTTPS://A.EXAMPLE" -> "https://a.example"
    [] t = "https://A.example" -> "https://a.example"
    [] OTHER -> t

\* String.prototype.toLowerCase
ToLowerCase(s) == [i \in 1..Len(s) |-> LowerTok(s[i])]

RECURSIVE TrimStart(_)
TrimStart(s) == IF s # <<>> /\ Head(s) = " " THEN TrimStart(Tail(s)) ELSE s

RECURSIVE TrimEnd(_)
TrimEnd(s) ==
  IF s # <<>> /\ s[Len(s)] = " " THEN TrimEnd(SubSeq(s, 1, Len(s) - 1)) ELSE s

\* String.prototype.trim
Trim(s) == TrimEnd(TrimStart(s))

\* String.prototype.split(sep): "" splits to [""], "a;" to ["a", ""]
RECURSIVE SplitFrom(_, _, _)
SplitFrom(s, sep, cur) ==
  IF s = <<>> THEN <<cur>>
  ELSE IF Head(s) = sep THEN <<cur>> \o SplitFrom(Tail(s), sep, <<>>)
  ELSE SplitFrom(Tail(s), sep, Append(cur, Head(s)))

Split(s, sep) == SplitFrom(s, sep, <<>>)

\* Array.prototype.join(sep)
RECURSIVE Join(_, _)
Join(parts, sep) ==
  IF parts = <<>> THEN <<>>
  ELSE IF Len(parts) = 1 THEN parts[1]
  ELSE parts[1] \o <<sep>> \o Join(Tail(parts), sep)

\* String.prototype.includes
Includes(s, t) == \E i \in 1..Len(s) : s[i] = t

\* String.prototype.indexOf / lastIndexOf: 0-based, -1 when absent
IndexOf(s, t) ==
  IF Includes(s, t)
  THEN (CHOOSE i \in 1..Len(s) : s[i] = t /\ \A j \in 1..(i - 1) : s[j] # t) - 1
  ELSE -1

LastIndexOf(s, t) ==
  IF Includes(s, t)
  THEN (CHOOSE i \in 1..Len(s) : s[i] = t /\ \A j \in (i + 1)..Len(s) : s[j] # t) - 1
  ELSE -1

Clamp(n, len) == IF n < 0 THEN 0 ELSE IF n > len THEN len ELSE n

\* String.prototype.substring(a, b): indices clamped, swapped when a > b
Substring(s, a, b) ==
  LET ca == Clamp(a, Len(s))
      cb == Clamp(b, Len(s))
      lo == IF ca <= cb THEN ca ELSE cb
      hi == IF ca <= cb THEN cb ELSE ca
  IN  SubSeq(s, lo + 1, hi)

(* ------------------------- values on the wire ------------------------- *)

\* A chunk written by the application: its JS type and its payload.  The
\* payload of the n-th chunk written is <<tag, n, "-">>.
ChunkTypes == {"buffer", "string", "object", "number"}

PayloadTag(type) ==
  CASE type = "buffer" -> "raw"
    [] type = "string" -> "str"
    [] type = "object" -> "obj"
    [] OTHER -> "num"

MkChunk(type, n) == [type |-> type, val |-> <<PayloadTag(type), n, "-">>]

\* the value of a JS variable that was declared and never assigned
UndefinedChunk == [type |-> "undefined", val |-> <<"undefined", 0, "-">>]

\* Buffer.isBuffer(any)
IsBuffer(any) == any.type = "buffer"

\* JSON.stringify(any): the JSON text of the payload
JSONStringify(any) == <<"json", any.val[2], "-">>

\* Buffer.from(text, encoding): the bytes of text in that encoding
BufferFrom(text, encoding) ==
  [type |-> "buffer", val |-> <<text[1], text[2], encoding>>]

\* JS truthiness of a chunk: every Buffer is an object, so truthy
ChunkTruthy(chunk) == chunk.type # "undefined"

\* the value of `encoding` before it is resolved
NoEncoding == "null"

(* ---------------------------- transcoder ------------------------------ *)

\* charsetAsBufferEncoding: a switch on the exact string
CharsetAsBufferEncoding(charset) ==
  CASE charset \in {<<"iso-8859-1">>, <<"ascii">>, <<"binary">>, <<"latin1">>} -> "latin1"
    [] charset \in {<<"utf-16le">>, <<"ucs-2">>, <<"ucs2">>, <<"utf16le">>} -> "utf16le"
    [] charset \in {<<"base64">>, <<"hex">>} -> charset[1]
    [] OTHER -> "utf-8"

\* lines 79-83 of parseCharset: the text between the first and the last
\* double quote, when there is one
StripQuotes(c, firstQuote, lastQuote) ==
  IF firstQuote # -1 /\ lastQuote # -1 THEN Substring(c, firstQuote + 1, lastQuote) ELSE c

\* lines 78-84: the directive is the charset one; parameters[1] may be missing
CharsetOf(parameters) ==
  IF Len(parameters) < 2
  \* parameters[1]?.trim().toLowerCase() is undefined; charset.indexOf throws
  THEN [charset |-> Undefined, threw |-> TRUE]
  ELSE [charset |-> StripQuotes(ToLowerCase(Trim(parameters[2])),
                                IndexOf(ToLowerCase(Trim(parameters[2])), DQ),
                                LastIndexOf(ToLowerCase(Trim(parameters[2])), DQ)),
        threw |-> FALSE]

\* line 75: the directive's key is charset
IsCharsetDirective(parameters) == ToLowerCase(Trim(parameters[1])) = <<"charset">>

\* the callback of contentType.split(';').some(...) in parseCharset, over the
\* directives in order: the charset it leaves, and whether it threw
RECURSIVE ScanDirectives(_, _)
ScanDirectives(directives, charset) ==
  IF directives = <<>> THEN [charset |-> charset, threw |-> FALSE]
  ELSE IF IsCharsetDirective(Split(Head(directives), "="))
  THEN CharsetOf(Split(Head(directives), "="))
  ELSE ScanDirectives(Tail(directives), charset)

\* lines 87-92 of parseCharset: no charset was found, take the default
DefaultCharset(s) ==
  IF Truthy(s.opts.defaultCharset) THEN s.opts.defaultCharset ELSE <<"utf-8">>

\* a variant that writes the charset back without looking at headersSent
UseDefaultCharset_IgnoreSent(s) ==
  IF s.opts.setCharset
  THEN [s EXCEPT !.charset = DefaultCharset(s),
                 !.contentType = (IF Truthy(@) THEN @ ELSE <<>>)
                                   \o <<";", "charset", "=">> \o DefaultCharset(s),
                 !.hdrWrites = @ + 1]
  ELSE [s EXCEPT !.charset = DefaultCharset(s)]

UseDefaultCharset(s) ==
  IF s.opts.setCharset /\ ~s.headersSent
  THEN [s EXCEPT !.charset = DefaultCharset(s),
                 !.contentType = (IF Truthy(@) THEN @ ELSE <<>>)
                                   \o <<";", "charset", "=">> \o DefaultCharset(s),
                 !.hdrWrites = @ + 1]
  ELSE [s EXCEPT !.charset = DefaultCharset(s)]

\* parseCharset() after the scan of the header
AfterScan(s, scan) ==
  IF scan.threw
  THEN [st |-> [s EXCEPT !.charset = scan.charset, !.ctRead = TRUE], threw |-> TRUE]
  ELSE IF Truthy(scan.charset)
  THEN [st |-> [s EXCEPT !.charset = scan.charset, !.ctRead = TRUE], threw |-> FALSE]
  ELSE [st |-> UseDefaultCharset([s EXCEPT !.ctRead = TRUE]), threw |-> FALSE]

\* parseCharset() on the state s of one response: the state after it, and
\* whether it threw
ParseCharset(s) ==
  IF Truthy(s.charset) THEN [st |-> s, threw |-> FALSE]
  ELSE IF Truthy(s.contentType)
  THEN AfterScan(s, ScanDirectives(Split(s.contentType, ";"), s.charset))
  ELSE AfterScan(s, [charset |-> s.charset, threw |-> FALSE])

\* the map callback of setJSONMediaType
JSONDirective(directive) ==
  IF Includes(directive, "=") THEN directive ELSE <<"application/json">>

\* the content-type value setJSONMediaType writes
JSONMediaType(contentType) ==
  LET directives == Split(IF Truthy(contentType) THEN contentType ELSE <<>>, ";")
  IN  Join([i \in 1..Len(directives) |-> JSONDirective(directives[i])], ";")

\* setJSONMediaType()
SetJSONMediaType(s) ==
  IF s.hasSetJSON THEN s
  ELSE [s EXCEPT !.contentType = JSONMediaType(s.contentType),
                 !.hasSetJSON = TRUE,
                 !.ctRead = TRUE,
                 !.hdrWrites = @ + 1,
                 !.jsonLog = Append(@, <<s.contentType, JSONMediaType(s.contentType)>>)]

\* hasEndCalled(stream): end() was called on the stream (EndObserver)
HasEndCalled(s) == s.endCalled

\* one call the transcoder makes on another stream
WriteCall(target, chunk) == [target |-> target, op |-> "write", chunk |-> chunk]
EndCall(target) == [target |-> target, op |-> "end", chunk |-> UndefinedChunk]

\* encoding = charsetAsBufferEncoding(parseCharset()), given what
\* parseCharset() did
SetEncoding(p) ==
  IF p.threw THEN p
  ELSE [st |-> [p.st EXCEPT !.encoding = CharsetAsBufferEncoding(p.st.charset)],
        threw |-> FALSE]

\* a variant that resolves the encoding anew from the header on every chunk
ResolveEncoding_EveryChunk(s) == SetEncoding(ParseCharset([s EXCEPT !.charset = Null]))

\* lines 118-120 and 123-125: resolve the encoding if there is none yet
ResolveEncoding(s) ==
  IF s.encoding # NoEncoding THEN [st |-> s, threw |-> FALSE]
  ELSE SetEncoding(ParseCharset(s))

\* line 121: the string branch, after the encoding was resolved
EncodeString(r, any) ==
  IF r.threw THEN [st |-> r.st, chunk |-> UndefinedChunk, threw |-> TRUE]
  ELSE [st |-> r.st, chunk |-> BufferFrom(any.val, r.st.encoding), threw |-> FALSE]

\* lines 126-129: the object branch, after the encoding was resolved
EncodeObject(r, any) ==
  IF r.threw THEN [st |-> r.st, chunk |-> UndefinedChunk, threw |-> TRUE]
  ELSE [st |-> IF r.st.opts.setJSON /\ ~r.st.hasSetJSON /\ ~r.st.headersSent
               THEN SetJSONMediaType(r.st) ELSE r.st,
        chunk |-> BufferFrom(JSONStringify(any), r.st.encoding),
        threw |-> FALSE]

\* a variant that resolves the encoding on a raw-byte chunk too
Normalize_RawResolves(s, any) ==
  IF IsBuffer(any) THEN [st |-> ResolveEncoding(s).st, chunk |-> any, threw |-> FALSE]
  ELSE IF any.type = "string" THEN EncodeString(ResolveEncoding(s), any)
  ELSE IF any.type = "object" THEN EncodeObject(ResolveEncoding(s), any)
  ELSE [st |-> s, chunk |-> UndefinedChunk, threw |-> FALSE]

\* the first half of the 'data' handler: the chunk made of `any`, the state
\* after making it, and whether making it threw
Normalize(s, any) ==
  IF IsBuffer(any) THEN [st |-> s, chunk |-> any, threw |-> FALSE]
  ELSE IF any.type = "string" THEN EncodeString(ResolveEncoding(s), any)
  ELSE IF any.type = "object" THEN EncodeObject(ResolveEncoding(s), any)
  \* no branch assigns chunk
  ELSE [st |-> s, chunk |-> UndefinedChunk, threw |-> FALSE]

\* the second half of the 'data' handler: queue the chunk or forward it
Forward(s, chunk) ==
  IF HasEndCalled(s)
  THEN [s EXCEPT !.pendingChunks = Append(@, chunk)]
  ELSE [s EXCEPT !.calls = Append(@, WriteCall(s.destination, chunk))]

\* the 'data' handler, given the chunk it made
Deliver(n) ==
  IF n.threw THEN [n.st EXCEPT !.faulted = TRUE] ELSE Forward(n.st, n.chunk)

\* newWritable.on('data', ...)
OnData(s, any) == Deliver(Normalize(s, any))

\* while (chunk = pendingChunks.shift()) destination.write(chunk)
RECURSIVE Flush(_)
Flush(s) ==
  IF s.pendingChunks = <<>> THEN s
  ELSE
    LET chunk == Head(s.pendingChunks)
        shifted == [s EXCEPT !.pendingChunks = Tail(@)]
    IN  IF ~ChunkTruthy(chunk) THEN shifted
        ELSE Flush([shifted EXCEPT !.calls = Append(@, WriteCall(s.destination, chunk))])

\* a variant of the 'end' handler that ends the forward target before it
\* flushes the queue
OnEnd_EndFirst(s) == Flush([s EXCEPT !.calls = Append(@, EndCall(s.destination))])

\* newWritable.on('end', ...)
OnEnd(s) == [Flush(s) EXCEPT !.calls = Append(@, EndCall(s.destination))]

\* res.replaceStream(newStream): installs the new front, returns the old one
ReplaceStream(s, newStream) ==
  [s EXCEPT !.front = newStream, !.replaceCalls = @ + 1, !.replaced = s.front]

\* lines 54-65 and 112-149: the streams and the closure of one call
Install(s) ==
  [s EXCEPT !.pc = "done",
            !.result = "continue",
            !.destination = s.replaced,
            !.listeners = {"endObserver", "data", "end"},
            !.pendingChunks = <<>>,
            !.charset = Null,
            !.encoding = NoEncoding,
            !.hasSetJSON = FALSE]

\* a variant without the HEAD early return
ExecuteBufferEncoder_NoHeadCheck(s) == Install(ReplaceStream(s, "newWritable"))

\* executeBufferEncoderMiddleware({ req, res }, options)
ExecuteBufferEncoder(s) ==
  IF s.method = "HEAD" THEN [s EXCEPT !.pc = "done", !.result = "continue"]
  ELSE Install(ReplaceStream(s, "newWritable"))

(* ------------------------------- state -------------------------------- *)

\* resp[r]: one response passing through the transcoder, with the closure
\*          variables of its executeBufferEncoderMiddleware call
\* cors:    one request passing through the CORS middleware
\* cookie:  one cookie passing through CookieObject
VARIABLES resp, cors, cookie

vars == <<resp, cors, cookie>>

\* the responses one middleware instance may be serving
Resp == {1, 2}

ContentTypes ==
  { Null,
    <<"text/plain">>,
    <<"text/plain", ";", "charset", "=", "ISO-8859-1">>,
    <<"text/plain", ";", " ", "Charset", "=", DQ, "utf-16le", DQ>>,
    <<"text/plain", ";", "charset">>,
    <<"text/plain", ";", "charset", "=">>,
    <<"text/plain", ";", "foo", ";", "charset", "=", "hex">> }

\* the values another party sets the content-type header to
HeaderUpdates ==
  { <<"text/plain", ";", "charset", "=", "ISO-8859-1">>,
    <<"text/plain", ";", "foo", ";", "charset", "=", "hex">> }

DefaultCharsets == { Null, <<"ISO-8859-1">> }

BufferEncoderOptions ==
  [defaultCharset : DefaultCharsets, setCharset : BOOLEAN, setJSON : BOOLEAN]

NewResponse(method, opts, contentType) ==
  [ pc |-> "new", method |-> method, opts |-> opts, result |-> "none",
    \* res
    contentType |-> contentType, headersSent |-> FALSE,
    front |-> "sink", replaceCalls |-> 0, replaced |-> "none",
    \* newWritable
    listeners |-> {}, buffered |-> <<>>, endCalled |-> FALSE, ended |-> FALSE,
    \* closure variables
    destination |-> "none", pendingChunks |-> <<>>, charset |-> Null,
    encoding |-> NoEncoding, hasSetJSON |-> FALSE,
    \* calls made on the forward target, in order
    calls |-> <<>>,
    \* a handler threw
    faulted |-> FALSE,
    \* history: chunks written, chunks delivered, how many of them before
    \* end() was called, reads and writes of the content-type header by the
    \* transcoder, the JSON rewrites (before, after), header changes by
    \* others, and whether a chunk was encoded after such a change
    nWritten |-> 0, arrived |-> <<>>, nDirect |-> 0, ctRead |-> FALSE,
    hdrWrites |-> 0, jsonLog |-> <<>>, hdrChanges |-> 0,
    changedAfterResolve |-> FALSE, encodedAfterChange |-> FALSE ]

OffResponse == [NewResponse("GET", [defaultCharset |-> Null, setCharset |-> FALSE,
                                    setJSON |-> FALSE], Null) EXCEPT !.pc = "off"]

CorsIdle == [pc |-> "off"]

CookieIdle == [pc |-> "off"]

(* ------------------------- transcoder actions ------------------------- *)

\* the pipeline runs the middleware on response r
Execute(r) ==
  /\ resp[r].pc = "new"
  /\ resp' = [resp EXCEPT ![r] = ExecuteBufferEncoder(resp[r])]
  /\ UNCHANGED <<cors, cookie>>

\* the number that names the k-th chunk written to response r
ChunkNo(r, k) == (r - 1) * MaxChunks + k

\* the application writes a chunk to the front stream
AppWrite(r) ==
  /\ resp[r].pc = "done"
  /\ resp[r].front = "newWritable"
  /\ ~resp[r].endCalled
  /\ resp[r].nWritten < MaxChunks
  /\ \E type \in ChunkTypes :
       resp' = [resp EXCEPT ![r].nWritten = @ + 1,
                            ![r].buffered =
                               Append(@, MkChunk(type, ChunkNo(r, resp[r].nWritten + 1)))]
  /\ UNCHANGED <<cors, cookie>>

\* the closure variables of state c (pendingChunks, charset, encoding,
\* hasSetJSON) put into state s
Closure(s, c) ==
  [s EXCEPT !.pendingChunks = c.pendingChunks, !.charset = c.charset,
            !.encoding = c.encoding, !.hasSetJSON = c.hasSetJSON]

\* a variant that keeps one set of closure variables for the whole middleware
ClosureOf_PerInstance(r) == 1

\* the call whose closure variables the handlers of response r use: the
\* variables are declared inside the call, so it is the call on r itself
ClosureOf(r) == r

\* the responses after a handler of response r has left its state as t
Handled(r, t) ==
  [q \in Resp |->
     IF q = ClosureOf(r) THEN (IF q = r THEN t ELSE Closure(resp[q], t))
     ELSE IF q = r THEN Closure(t, resp[r])
     ELSE resp[q]]

\* the application calls end() on the front stream: the logical end
AppEnd(r) ==
  /\ resp[r].pc = "done"
  /\ resp[r].front = "newWritable"
  /\ ~resp[r].endCalled
  /\ resp' = [resp EXCEPT ![r].endCalled = TRUE]
  /\ UNCHANGED <<cors, cookie>>

\* history of a 'data' event: s before the handler ran, t after
Delivered(s, any, t) ==
  [t EXCEPT !.arrived = Append(@, any),
            !.nDirect = IF s.endCalled THEN @ ELSE @ + 1,
            !.encodedAfterChange =
               @ \/ (s.changedAfterResolve /\ ~t.faulted
                       /\ any.type \in {"string", "object"})]

\* newWritable emits 'data' with its oldest buffered chunk
Data(r) ==
  /\ resp[r].pc = "done"
  /\ "data" \in resp[r].listeners
  /\ resp[r].buffered # <<>>
  /\ ~resp[r].ended
  /\ resp' = Handled(r,
                Delivered(resp[r], Head(resp[r].buffered),
                          OnData(Closure([resp[r] EXCEPT !.buffered = Tail(@)],
                                         resp[ClosureOf(r)]),
                                 Head(resp[r].buffered))))
  /\ UNCHANGED <<cors, cookie>>

\* newWritable emits 'end': the physical completion
EndEvent(r) ==
  /\ resp[r].pc = "done"
  /\ "end" \in resp[r].listeners
  /\ resp[r].endCalled
  /\ resp[r].buffered = <<>>
  /\ ~resp[r].ended
  /\ resp' = Handled(r, [OnEnd(Closure(resp[r], resp[ClosureOf(r)]))
                            EXCEPT !.ended = TRUE])
  /\ UNCHANGED <<cors, cookie>>

\* another party sets the content-type header
SetHeader(r) ==
  /\ resp[r].pc = "done"
  /\ ~resp[r].headersSent
  /\ resp[r].hdrChanges < MaxHeaderChanges
  /\ \E v \in HeaderUpdates \ {resp[r].contentType} :
       resp' = [resp EXCEPT ![r].contentType = v,
                            ![r].hdrChanges = @ + 1,
                            ![r].changedAfterResolve =
                               @ \/ resp[r].encoding # NoEncoding]
  /\ UNCHANGED <<cors, cookie>>

\* the headers go out: the one-way latch
SendHeaders(r) ==
  /\ resp[r].pc = "done"
  /\ ~resp[r].headersSent
  /\ resp' = [resp EXCEPT ![r].headersSent = TRUE]
  /\ UNCHANGED <<cors, cookie>>

Init ==
  /\ \E method \in {"GET", "HEAD"}, opts \in BufferEncoderOptions, ct \in ContentTypes :
       resp = [r \in Resp |-> IF r = 1 THEN NewResponse(method, opts, ct)
                              ELSE OffResponse]
  /\ cors = CorsIdle
  /\ cookie = CookieIdle

Next ==
  \E r \in Resp :
    \/ Execute(r)
    \/ AppWrite(r)
    \/ AppEnd(r)
    \/ Data(r)
    \/ EndEvent(r)
    \/ SetHeader(r)
    \/ SendHeaders(r)

Spec == Init /\ [][Next]_vars

\* one middleware instance serving two responses at once: the same options,
\* a header of its own on each
InitTwo ==
  /\ \E opts \in {o \in BufferEncoderOptions : o.setCharset /\ o.setJSON} :
       resp = [r \in Resp |->
                 NewResponse("GET", opts,
                             IF r = 1 THEN <<"text/plain", ";", "charset", "=", "ISO-8859-1">>
                             ELSE Null)]
  /\ cors = CorsIdle
  /\ cookie = CookieIdle

\* the application writes a chunk to one of the two responses
WriteTwo(r) ==
  /\ resp[1].nWritten + resp[2].nWritten < MaxTotalChunks
  /\ AppWrite(r)

NextTwo ==
  \E r \in Resp :
    \/ Execute(r)
    \/ WriteTwo(r)
    \/ AppEnd(r)
    \/ Data(r)
    \/ EndEvent(r)

SpecTwo == InitTwo /\ [][NextTwo]_vars

(* -------------------------------- CORS -------------------------------- *)

CorsHeaderNames ==
  { "access-control-allow-origin", "access-control-allow-credentials",
    "access-control-allow-methods", "access-control-allow-headers",
    "access-control-max-age", "access-control-expose-headers" }

\* the values of the request's Origin header
Origins ==
  { <<"https://a.example">>, <<"HTTPS://A.EXAMPLE">>, <<"https://b.example">> }

\* an allowOrigin entry: a string, or a RegExp given by the origins it accepts
StringEntry(str) == [kind |-> "string", str |-> str, accepts |-> {}]
RegExpEntry(accepts) == [kind |-> "regexp", str |-> <<>>, accepts |-> accepts]

AllowOriginEntries ==
  { StringEntry(<<"*">>), StringEntry(<<"https://A.example">>),
    StringEntry(<<"https://b.example">>),
    RegExpEntry({<<"https://a.example">>, <<"https://b.example">>}) }

\* RegExp.prototype.test
Test(entry, str) == str \in entry.accepts

AllowOriginLists ==
  UNION { [1..n -> AllowOriginEntries] : n \in 0..MaxAllow }

\* an option that may be left out: `set` is whether it was given
Unset(v) == [set |-> FALSE, v |-> v]
Given(v) == [set |-> TRUE, v |-> v]

CORSOptions ==
  [ allowOrigin : {Unset(<<>>)} \cup {Given(l) : l \in AllowOriginLists},
    allowCredentials : BOOLEAN,
    allowMethods : {Unset(<<>>), Given(<< <<"GET">>, <<"POST">> >>)},
    allowHeaders : {Unset(<<>>), Given(<< <<"x-a">>, <<"x-b">> >>)},
    maxAge : {Unset(0), Given(0), Given(600)},
    exposeHeaders : {Unset(<<>>), Given(<< <<"x-c">>, <<"x-d">> >>)} ]

CORSRequests ==
  [ method : {"GET", "OPTIONS"},
    hasOrigin : BOOLEAN,
    origin : Origins,
    requestHeaders : {Undefined, <<"x-a">>} ]

\* req.headers of a request without Origin has no origin value to tell apart
NormalRequests == {q \in CORSRequests : q.hasOrigin \/ q.origin = <<"https://a.example">>}

DefaultAllowMethods ==
  << <<"GET">>, <<"HEAD">>, <<"POST">>, <<"PUT">>, <<"DELETE">>, <<"CONNECT">>,
     <<"TRACE">>, <<"PATCH">> >>

NewCors(req, options, status) ==
  [ pc |-> "new", req |-> req, options |-> options, result |-> "none",
    headers |-> [h \in CorsHeaderNames |-> Null],
    status |-> status,
    \* history: the status the response came with
    status0 |-> status,
    \* res.stream: the end() calls made on it and what was written to it
    stream |-> [endCalls |-> 0, body |-> <<>>] ]

\* Number.prototype.toString(10)
NumberToString(n) == <<ToString(n)>>

SetCorsHeader(c, name, value) == [c EXCEPT !.headers[name] = value]

\* a variant that answers with the configured string, not the request's Origin
RECURSIVE SomeAllowOrigin_EchoConfigured(_, _)
SomeAllowOrigin_EchoConfigured(c, list) ==
  IF list = <<>> THEN c
  ELSE IF Head(list).kind = "string" /\ Head(list).str = <<"*">>
  THEN SetCorsHeader(c, "access-control-allow-origin", <<"*">>)
  ELSE IF Head(list).kind = "string"
  THEN IF ToLowerCase(c.req.origin) = ToLowerCase(Head(list).str)
       THEN SetCorsHeader(c, "access-control-allow-origin", Head(list).str)
       ELSE SomeAllowOrigin_EchoConfigured(c, Tail(list))
  ELSE IF Test(Head(list), c.req.origin)
  THEN SetCorsHeader(c, "access-control-allow-origin", c.req.origin)
  ELSE SomeAllowOrigin_EchoConfigured(c, Tail(list))

\* the callback of options.allowOrigin.some(...), over the entries in order
RECURSIVE SomeAllowOrigin(_, _)
SomeAllowOrigin(c, list) ==
  IF list = <<>> THEN c
  ELSE IF Head(list).kind = "string" /\ Head(list).str = <<"*">>
  THEN SetCorsHeader(c, "access-control-allow-origin", <<"*">>)
  ELSE IF Head(list).kind = "string"
  THEN IF ToLowerCase(c.req.origin) = ToLowerCase(Head(list).str)
       THEN SetCorsHeader(c, "access-control-allow-origin", c.req.origin)
       ELSE SomeAllowOrigin(c, Tail(list))
  ELSE IF Test(Head(list), c.req.origin)
  THEN SetCorsHeader(c, "access-control-allow-origin", c.req.origin)
  ELSE SomeAllowOrigin(c, Tail(list))

\* lines 34-56
AllowOrigin(c) ==
  IF ~c.options.allowOrigin.set
  THEN SetCorsHeader(c, "access-control-allow-origin", <<"*">>)
  ELSE SomeAllowOrigin(c, c.options.allowOrigin.v)

\* a variant that allows credentials only when an origin was allowed
AllowCredentials_OnlyIfMatched(c) ==
  IF c.options.allowCredentials /\ c.headers["access-control-allow-origin"] # Null
  THEN SetCorsHeader(c, "access-control-allow-credentials", <<"true">>)
  ELSE c

\* lines 57-59
AllowCredentials(c) ==
  IF c.options.allowCredentials
  THEN SetCorsHeader(c, "access-control-allow-credentials", <<"true">>)
  ELSE c

\* lines 61-67
AllowMethods(c) ==
  SetCorsHeader(c, "access-control-allow-methods",
                IF c.options.allowMethods.set
                THEN Join(c.options.allowMethods.v, ",")
                ELSE Join(DefaultAllowMethods, ","))

\* lines 68-72
AllowHeaders(c) ==
  SetCorsHeader(c, "access-control-allow-headers",
                IF c.options.allowHeaders.set
                THEN Join(c.options.allowHeaders.v, ",")
                ELSE c.req.requestHeaders)

\* lines 73-75: `if (options.maxAge)` is false for 0 as for a missing maxAge
MaxAge(c) ==
  IF c.options.maxAge.set /\ c.options.maxAge.v # 0
  THEN SetCorsHeader(c, "access-control-max-age", NumberToString(c.options.maxAge.v))
  ELSE c

\* res.stream.end(chunk)
StreamEnd(stream, chunk) ==
  [stream EXCEPT !.endCalls = @ + 1, !.body = Append(@, chunk)]

\* a variant that answers a preflight with 204 and no body
EndPreflight_NoContent(c) ==
  [c EXCEPT !.status = 204, !.stream.endCalls = @ + 1, !.result = "end", !.pc = "done"]

\* lines 76-79
EndPreflight(c) ==
  [c EXCEPT !.status = 200, !.stream = StreamEnd(@, <<"OK">>),
            !.result = "end", !.pc = "done"]

\* lines 60-80
Preflight(c) == EndPreflight(MaxAge(AllowHeaders(AllowMethods(c))))

\* lines 82-85
SimpleCors(c) ==
  [(IF c.options.exposeHeaders.set
    THEN SetCorsHeader(c, "access-control-expose-headers",
                       Join(c.options.exposeHeaders.v, ","))
    ELSE c) EXCEPT !.result = "continue", !.pc = "done"]

\* a variant that answers every CORS request as a preflight
PreflightOrSimple_AnyMethod(c) == Preflight(c)

\* lines 60 and 82: the two kinds of CORS request
PreflightOrSimple(c) ==
  IF c.req.method = "OPTIONS" THEN Preflight(c) ELSE SimpleCors(c)

\* a variant without the not-CORS early return
ExecuteCORS_NoOriginCheck(c) == PreflightOrSimple(AllowCredentials(AllowOrigin(c)))

\* executeCORSMiddleware({ req, res }, options)
ExecuteCORS(c) ==
  IF ~c.req.hasOrigin THEN [c EXCEPT !.result = "continue", !.pc = "done"]
  ELSE PreflightOrSimple(AllowCredentials(AllowOrigin(c)))

\* the pipeline runs the CORS middleware on the request
CorsExecute ==
  /\ cors.pc = "new"
  /\ cors' = ExecuteCORS(cors)
  /\ UNCHANGED <<resp, cookie>>

InitCors ==
  /\ resp = [r \in Resp |-> OffResponse]
  /\ \E req \in NormalRequests, options \in CORSOptions, status \in {200, 404} :
       cors = NewCors(req, options, status)
  /\ cookie = CookieIdle

NextCors == CorsExecute

SpecCors == InitCors /\ [][NextCors]_vars

(* ------------------------------- cookies ------------------------------ *)

\* an optional number or Date field: absent (undefined), a value, or a value
\* that is not a number (NaN, Invalid Date)
Absent == [set |-> FALSE, ok |-> TRUE, v |-> 0]
Num(n) == [set |-> TRUE, ok |-> TRUE, v |-> n]
NaN == [set |-> TRUE, ok |-> FALSE, v |-> 0]

\* the expires values, in milliseconds since the epoch
ExpiresMs == {1000, 1500, 86400000}

MaxAgeSeconds == {0, 3600}

\* Date.prototype.toUTCString: the HTTP-date, to the second
ToUTCString(date) ==
  IF date.ok THEN <<"HTTP-date", ToString(date.v \div 1000)>> ELSE <<"Invalid Date">>

\* new Date(value) on a string or undefined
NewDate(value) ==
  IF Len(value) = 2 /\ value[1] = "HTTP-date"
       /\ \E ms \in ExpiresMs : ToString(ms \div 1000) = value[2]
  THEN Num(1000 * ((CHOOSE ms \in ExpiresMs : ToString(ms \div 1000) = value[2]) \div 1000))
  ELSE NaN

\* parseInt(value, 10) on a string or undefined
ParseInt(value) ==
  IF Len(value) = 1 /\ \E n \in MaxAgeSeconds : ToString(n) = value[1]
  THEN Num(CHOOSE n \in MaxAgeSeconds : ToString(n) = value[1])
  ELSE NaN

\* `${number}`
NumberText(num) == IF num.ok THEN NumberToString(num.v) ELSE <<"NaN">>

\* `${string}`, which spells out undefined
Text(str) == IF str = Undefined THEN <<"undefined">> ELSE str

CookieNames == { <<"sid">> }

CookieValues == { <<"abc">>, <<"a", "=", "b">>, <<"YWJj", "=", "=">>, <<>> }

\* CookieObjectOptions
CookieOptions ==
  [ name : CookieNames,
    value : CookieValues,
    expires : {Absent} \cup {Num(ms) : ms \in ExpiresMs},
    maxAge : {Absent} \cup {Num(n) : n \in MaxAgeSeconds},
    domain : {Undefined, <<"example.com">>},
    path : {Undefined, <<"/docs">>},
    secure : {"undefined", "true"},
    httpOnly : {"undefined", "true"},
    sameSite : {Undefined, <<"strict">>} ]

\* options.secure ?? false, on "undefined", "false" or "true"
OrFalse(flag) == IF flag = "undefined" THEN "false" ELSE flag

\* new CookieObject(options), options not a string
Construct(options) ==
  [options EXCEPT !.secure = OrFalse(@), !.httpOnly = OrFalse(@)]

\* the options object CookieObject.parse starts from
EmptyOptions ==
  [ name |-> Undefined, value |-> Undefined, expires |-> Absent, maxAge |-> Absent,
    domain |-> Undefined, path |-> Undefined, secure |-> "undefined",
    httpOnly |-> "undefined", sameSite |-> Undefined ]

\* const [key, value] = attribute.split('=').map((s) => s?.trim())
KeyOf(parts) == Trim(parts[1])
ValueOf(parts) == IF Len(parts) < 2 THEN Undefined ELSE Trim(parts[2])

\* the switch of CookieObject.parse on the lower-cased key
Attribute(options, key, value) ==
  CASE key = <<"expires">> -> [options EXCEPT !.expires = NewDate(value)]
    [] key = <<"max-age">> -> [options EXCEPT !.maxAge = ParseInt(value)]
    [] key = <<"domain">> -> [options EXCEPT !.domain = value]
    [] key = <<"path">> -> [options EXCEPT !.path = value]
    [] key = <<"secure">> -> [options EXCEPT !.secure = "true"]
    [] key = <<"httponly">> -> [options EXCEPT !.httpOnly = "true"]
    [] key = <<"samesite">> -> [options EXCEPT !.sameSite = value]
    [] OTHER -> options

\* the forEach callback of CookieObject.parse on one segment
ParseSegment(options, parts, index) ==
  IF index = 0
  THEN [options EXCEPT !.name = KeyOf(parts), !.value = ValueOf(parts)]
  ELSE Attribute(options, ToLowerCase(KeyOf(parts)), ValueOf(parts))

\* cookieString.split(';').forEach(...), from the segment at `index` on
RECURSIVE ParseSegments(_, _, _)
ParseSegments(options, segments, index) ==
  IF segments = <<>> THEN options
  ELSE ParseSegments(ParseSegment(options, Split(Head(segments), "="), index),
                     Tail(segments), index + 1)

\* CookieObject.parse(cookieString)
ParseCookie(cookieString) ==
  Construct(ParseSegments(EmptyOptions, Split(cookieString, ";"), 0))

\* CookieObject.prototype.toString
CookieToString(c) ==
  Text(c.name) \o <<"=">> \o Text(c.value)
    \o (IF c.expires.set THEN <<";", "Expires", "=">> \o ToUTCString(c.expires) ELSE <<>>)
    \o (IF c.maxAge.set THEN <<";", "Max-Age", "=">> \o NumberText(c.maxAge) ELSE <<>>)
    \o (IF Truthy(c.domain) THEN <<";", "Domain", "=">> \o c.domain ELSE <<>>)
    \o (IF Truthy(c.path) THEN <<";", "Path", "=">> \o c.path ELSE <<>>)
    \o (IF c.secure = "true" THEN <<";", "Secure">> ELSE <<>>)
    \o (IF c.httpOnly = "true" THEN <<";", "HttpOnly">> ELSE <<>>)
    \o (IF Truthy(c.sameSite) THEN <<";", "SameSite", "=">> \o c.sameSite ELSE <<>>)

\* Set-Cookie strings as other software writes them
WireStrings ==
  { <<"sid", "=", "abc", ";", " ", "Path", "=", "/docs", ";", " ", "SECURE">>,
    <<" ", "sid", " ", "=", " ", "a", "=", "b", " ", ";", "MAX-AGE", "=", "3600">>,
    <<"sid", "=", "YWJj", "=", "=", ";", "Domain", "=", "example.com", ";", "HttpOnly">>,
    <<"sid", "=", ";", "SameSite", "=", "strict", ";", "Priority", "=", "High">> }

\* a cookie built from an options record
CookieFromOptions(options) ==
  [ pc |-> "object", source |-> "options", object |-> Construct(options),
    wire |-> Undefined, parsed |-> Construct(EmptyOptions) ]

\* a cookie string received from the wire
CookieFromWire(wire) ==
  [ pc |-> "string", source |-> "wire", object |-> Construct(EmptyOptions),
    wire |-> wire, parsed |-> Construct(EmptyOptions) ]

\* cookie.toString()
Serialize ==
  /\ cookie.pc = "object"
  /\ cookie' = [cookie EXCEPT !.pc = "string", !.wire = CookieToString(cookie.object)]
  /\ UNCHANGED <<resp, cors>>

\* CookieObject.parse(string), or new CookieObject(string)
Parse ==
  /\ cookie.pc = "string"
  /\ cookie' = [cookie EXCEPT !.pc = "parsed", !.parsed = ParseCookie(cookie.wire)]
  /\ UNCHANGED <<resp, cors>>

InitCookie ==
  /\ resp = [r \in Resp |-> OffResponse]
  /\ cors = CorsIdle
  /\ \/ \E options \in CookieOptions : cookie = CookieFromOptions(options)
     \/ \E wire \in WireStrings : cookie = CookieFromWire(wire)

NextCookie == Serialize \/ Parse

SpecCookie == InitCookie /\ [][NextCookie]_vars

(* ------------------------------ claims -------------------------------- *)

\* the responses whose transcoder is installed
Live == {r \in Resp : resp[r].pc = "done" /\ resp[r].method # "HEAD"}

IsWrite(call) == call.op = "write"

ChunkOf(calls) == [i \in 1..Len(calls) |-> calls[i].chunk]

\* the chunks written to the forward target, in order
Writes(s) == ChunkOf(SelectSeq(s.calls, IsWrite))

\* the chunks the transcoder has put out or holds queued, in order
Out(s) == IF s.ended THEN Writes(s) ELSE Writes(s) \o s.pendingChunks

EndCalls(s) == {i \in 1..Len(s.calls) : s.calls[i].op = "end"}

\* chunk is a byte chunk carrying the payload of the arrived chunk `any`
Carries(chunk, any) == chunk.type = "buffer" /\ chunk.val[2] = any.val[2]

\* C1: on a non-HEAD response on which no handler threw, before the physical
\* completion the forward target has been written exactly the chunks that
\* arrived before end() was requested, and at the physical completion it has
\* been written every arrived chunk once, in arrival order, and then ended.
C1_WriteOrder ==
  \A r \in Live :
    LET s == resp[r]
    IN  ~s.faulted =>
          /\ ~s.ended => Len(Writes(s)) = s.nDirect
          /\ s.ended =>
               /\ Len(Writes(s)) = Len(s.arrived)
               /\ \A i \in 1..Len(s.arrived) : Carries(Writes(s)[i], s.arrived[i])
               /\ s.calls[Len(s.calls)].op = "end"

\* C2: a non-HEAD response has had replaceStream called once; every call the
\* transcoder makes goes to the stream that call returned; end() is called
\* on it at most once, and exactly when the input stream has completed; no
\* write follows the end.
C2_ForwardTarget ==
  \A r \in Live :
    LET s == resp[r]
    IN  /\ s.replaceCalls = 1
        /\ s.destination = "sink"
        /\ s.front = "newWritable"
        /\ \A i \in 1..Len(s.calls) : s.calls[i].target = s.destination
        /\ Cardinality(EndCalls(s)) = (IF s.ended THEN 1 ELSE 0)
        /\ \A i \in EndCalls(s) : i = Len(s.calls)

\* C2 witness: the input completed with a late chunk queued, which was
\* flushed before the end
C2_Witness ==
  \E r \in Live :
    /\ resp[r].ended
    /\ resp[r].nDirect < Len(resp[r].arrived)
    /\ Len(Writes(resp[r])) = Len(resp[r].arrived)
    /\ Len(resp[r].arrived) >= 2

\* C5: after the middleware ran on a HEAD request it returned 'continue',
\* replaceStream was not called, the front stream is the original one, no
\* observer or handler is registered, and the transcoder has neither read nor
\* written the content-type header nor called any stream.
C5_HeadPassthrough ==
  \A r \in Resp :
    (resp[r].pc = "done" /\ resp[r].method = "HEAD") =>
      /\ resp[r].result = "continue"
      /\ resp[r].replaceCalls = 0
      /\ resp[r].front = "sink"
      /\ resp[r].listeners = {}
      /\ ~resp[r].ctRead
      /\ resp[r].hdrWrites = 0
      /\ resp[r].calls = <<>>

\* C5 witness: the middleware ran on a HEAD request with both header options
\* configured
C5_Witness ==
  \E r \in Resp :
    /\ resp[r].pc = "done"
    /\ resp[r].method = "HEAD"
    /\ resp[r].opts.setCharset
    /\ resp[r].opts.setJSON
    /\ resp[r].result = "continue"

\* what chunk normalization is to make of the arrived chunk `any`
ExpectedChunk(any, encoding) ==
  IF any.type = "buffer" THEN any
  ELSE IF any.type = "string" THEN BufferFrom(any.val, encoding)
  ELSE BufferFrom(JSONStringify(any), encoding)

\* C6: on a response on which no handler threw, every arrived chunk has
\* produced exactly one byte chunk, forwarded or queued: a raw-byte chunk
\* itself, the encoded text of a string chunk, the encoded JSON text of any
\* other chunk.
C6_Normalization ==
  \A r \in Live :
    LET s == resp[r]
    IN  ~s.faulted =>
          /\ Len(Out(s)) = Len(s.arrived)
          /\ \A i \in 1..Len(s.arrived) :
               Out(s)[i] = ExpectedChunk(s.arrived[i], s.encoding)

\* C7: no 'data' handler throws, whatever the content-type header holds.
C7_NoFault == \A r \in Resp : ~resp[r].faulted

\* the charset-to-encoding mapping, insensitive to case
MapInsensitive(charset) == CharsetAsBufferEncoding(ToLowerCase(charset))

\* C8: the resolved encoding is the case-insensitive mapping of the resolved
\* charset name, whether the name came from the header or from defaultCharset.
C8_CaseInsensitive ==
  \A r \in Live :
    resp[r].encoding # NoEncoding => resp[r].encoding = MapInsensitive(resp[r].charset)

IsEncoded(chunk) == chunk.type = "buffer" /\ chunk.val[1] \in {"str", "json"}

\* C9: every string or structured chunk of a response was encoded with one
\* and the same encoding, the one resolved on the first of them, whatever
\* happened to the content-type header in between.
C9_EncodingOnce ==
  \A r \in Live :
    \A i \in 1..Len(Out(resp[r])) :
      IsEncoded(Out(resp[r])[i]) => Out(resp[r])[i].val[3] = resp[r].encoding

\* C9 witness: two chunks were encoded as UTF-16LE, the second after another
\* party had set the header to a value that declares another charset
C9_Witness ==
  \E r \in Live :
    /\ resp[r].encodedAfterChange
    /\ resp[r].encoding = "utf16le"
    /\ Len(SelectSeq(Out(resp[r]), IsEncoded)) = 2
    /\ ~resp[r].faulted

\* the rewrite the claim describes: only the first segment without '='
\* becomes application/json
RECURSIVE ReplaceFirstBare(_)
ReplaceFirstBare(directives) ==
  IF directives = <<>> THEN <<>>
  ELSE IF Includes(Head(directives), "=")
  THEN <<Head(directives)>> \o ReplaceFirstBare(Tail(directives))
  ELSE << <<"application/json">> >> \o Tail(directives)

FirstSegmentRewrite(contentType) ==
  Join(ReplaceFirstBare(Split(IF Truthy(contentType) THEN contentType ELSE <<>>, ";")), ";")

\* C10: with setJSON the content-type header is rewritten for JSON at most
\* once per response, and the rewrite changes only the first segment that has
\* no '='.
C10_JSONRewrite ==
  \A r \in Live :
    /\ Len(resp[r].jsonLog) <= 1
    /\ \A i \in 1..Len(resp[r].jsonLog) :
         resp[r].jsonLog[i][2] = FirstSegmentRewrite(resp[r].jsonLog[i][1])

IsPreflight(c) == c.pc = "done" /\ c.req.hasOrigin /\ c.req.method = "OPTIONS"

\* C3: after the CORS middleware ran on an OPTIONS request with an Origin
\* header, the status is 200, the response stream was ended once with the
\* body OK, and the middleware returned 'end'.
C3_PreflightEnds ==
  IsPreflight(cors) =>
    /\ cors.status = 200
    /\ cors.stream = [endCalls |-> 1, body |-> << <<"OK">> >>]
    /\ cors.result = "end"

\* C3 witness: a preflight whose Origin no allow-list entry matched, with
\* every option configured
C3_Witness ==
  /\ IsPreflight(cors)
  /\ cors.options.allowOrigin.set
  /\ cors.headers["access-control-allow-origin"] = Null
  /\ cors.options.allowCredentials
  /\ cors.options.maxAge.set
  /\ cors.options.exposeHeaders.set

\* the entry matches the request's Origin
Matches(entry, origin) ==
  \/ entry.kind = "string" /\ entry.str = <<"*">>
  \/ entry.kind = "string" /\ ToLowerCase(entry.str) = ToLowerCase(origin)
  \/ entry.kind = "regexp" /\ Test(entry, origin)

Matching(list, origin) == {i \in 1..Len(list) : Matches(list[i], origin)}

FirstMatching(list, origin) ==
  CHOOSE i \in Matching(list, origin) : \A j \in Matching(list, origin) : i <= j

\* the allow-origin value that first-match-in-list-order gives
ExpectedAllowOrigin(allowOrigin, origin) ==
  IF ~allowOrigin.set THEN <<"*">>
  ELSE IF Matching(allowOrigin.v, origin) = {} THEN Null
  ELSE IF allowOrigin.v[FirstMatching(allowOrigin.v, origin)] = StringEntry(<<"*">>)
  THEN <<"*">>
  ELSE origin

\* C4: after the CORS middleware ran on a request with an Origin header,
\* access-control-allow-origin is what the first matching allow-list entry
\* gives: '*' for a '*' entry or for no allow-list, the request's Origin for a
\* string or pattern entry, not set when no entry matches.
C4_FirstMatch ==
  (cors.pc = "done" /\ cors.req.hasOrigin) =>
    /\ cors.headers["access-control-allow-origin"]
         = ExpectedAllowOrigin(cors.options.allowOrigin, cors.req.origin)
    /\ cors.headers["access-control-allow-origin"] \in {<<"*">>, cors.req.origin, Null}

\* C4 witness: a string entry matched an Origin written in another case, and
\* a '*' entry follows it
C4_Witness ==
  /\ cors.pc = "done"
  /\ cors.req.hasOrigin
  /\ cors.req.origin = <<"HTTPS://A.EXAMPLE">>
  /\ cors.options.allowOrigin
       = Given(<<StringEntry(<<"https://A.example">>), StringEntry(<<"*">>)>>)
  /\ cors.headers["access-control-allow-origin"] = <<"HTTPS://A.EXAMPLE">>

\* the response as it was handed to the CORS middleware
CorsBefore(c) == NewCors(c.req, c.options, c.status0)

\* C12: after the CORS middleware ran on a request without an origin key it
\* returned 'continue', and every response header, the status and the
\* response stream are as they were before.
C12_NotCors ==
  (cors.pc = "done" /\ ~cors.req.hasOrigin) =>
    /\ cors.result = "continue"
    /\ cors.headers = CorsBefore(cors).headers
    /\ cors.status = cors.status0
    /\ cors.stream = CorsBefore(cors).stream

\* C12 witness: an OPTIONS request without Origin, with an allow-list and
\* credentials configured, on a response that came with status 404
C12_Witness ==
  /\ cors.pc = "done"
  /\ ~cors.req.hasOrigin
  /\ cors.req.method = "OPTIONS"
  /\ cors.options.allowCredentials
  /\ cors.options.allowOrigin.set
  /\ cors.status0 = 404

\* C13: after a preflight, access-control-max-age is the decimal string of
\* maxAge when maxAge is configured, 0 included, and is not set otherwise.
C13_MaxAge ==
  IsPreflight(cors) =>
    cors.headers["access-control-max-age"]
      = (IF cors.options.maxAge.set THEN NumberToString(cors.options.maxAge.v) ELSE Null)

\* C14: after the CORS middleware ran on a request with an Origin header and
\* allowCredentials configured, access-control-allow-credentials is 'true',
\* whether or not an allow-origin header was set.
C14_Credentials ==
  (cors.pc = "done" /\ cors.req.hasOrigin /\ cors.options.allowCredentials) =>
    cors.headers["access-control-allow-credentials"] = <<"true">>

\* C14 witness: credentials are allowed on a request whose Origin no
\* allow-list entry matched
C14_Witness ==
  /\ cors.pc = "done"
  /\ cors.req.hasOrigin
  /\ cors.options.allowCredentials
  /\ cors.options.allowOrigin.set
  /\ Len(cors.options.allowOrigin.v) > 0
  /\ cors.headers["access-control-allow-origin"] = Null
  /\ cors.headers["access-control-allow-credentials"] = <<"true">>

IsSimpleCors(c) == c.pc = "done" /\ c.req.hasOrigin /\ c.req.method # "OPTIONS"

\* C19: a simple CORS request returns 'continue' with the status and the
\* response stream as they were and without the allow-methods, allow-headers
\* and max-age headers; a preflight leaves access-control-expose-headers unset.
C19_StateSeparation ==
  /\ IsSimpleCors(cors) =>
       /\ cors.result = "continue"
       /\ cors.status = cors.status0
       /\ cors.stream = CorsBefore(cors).stream
       /\ cors.headers["access-control-allow-methods"] = Null
       /\ cors.headers["access-control-allow-headers"] = Null
       /\ cors.headers["access-control-max-age"] = Null
  /\ IsPreflight(cors) => cors.headers["access-control-expose-headers"] = Null

\* C19 witness: a simple CORS request with every option configured, on a
\* response that came with status 404, got its expose-headers header
C19_Witness ==
  /\ IsSimpleCors(cors)
  /\ cors.status0 = 404
  /\ cors.options.allowMethods.set
  /\ cors.options.allowHeaders.set
  /\ cors.options.maxAge = Given(600)
  /\ cors.headers["access-control-expose-headers"] = <<"x-c", ",", "x-d">>

\* the two dates are the same to the second, or both absent
SameSecond(a, b) ==
  /\ a.set = b.set
  /\ a.ok = b.ok
  /\ a.v \div 1000 = b.v \div 1000

\* C11: a cookie built from an options record, serialized and parsed again,
\* has the name, value, domain, path, secure, httpOnly, sameSite and maxAge it
\* had, and the expires it had to the second; what was absent is absent.
C11_RoundTrip ==
  (cookie.pc = "parsed" /\ cookie.source = "options") =>
    /\ cookie.parsed.name = cookie.object.name
    /\ cookie.parsed.value = cookie.object.value
    /\ cookie.parsed.domain = cookie.object.domain
    /\ cookie.parsed.path = cookie.object.path
    /\ cookie.parsed.secure = cookie.object.secure
    /\ cookie.parsed.httpOnly = cookie.object.httpOnly
    /\ cookie.parsed.sameSite = cookie.object.sameSite
    /\ cookie.parsed.maxAge = cookie.object.maxAge
    /\ SameSecond(cookie.parsed.expires, cookie.object.expires)

\* the first segment of a cookie string
FirstSegment(wire) == Split(wire, ";")[1]

\* everything after the first '=' of a segment, trimmed
AfterFirstEquals(segment) ==
  Trim(SubSeq(segment, IndexOf(segment, "=") + 2, Len(segment)))

\* C15: the value parsed from a cookie string whose first segment holds an
\* '=' is everything after the first '=' of that segment, trimmed.
C15_FirstEquals ==
  (cookie.pc = "parsed" /\ Includes(FirstSegment(cookie.wire), "=")) =>
    cookie.parsed.value = AfterFirstEquals(FirstSegment(cookie.wire))

\* the step delivers a chunk to the 'data' handler of response r
IsDataStep(r) == Len(resp'[r].arrived) = Len(resp[r].arrived) + 1

\* the chunk a data step of response r delivers
DataChunk(r) == Head(resp[r].buffered)

\* the step delivers the first string or structured chunk of response r
IsFirstTextStep(r) ==
  /\ IsDataStep(r)
  /\ DataChunk(r).type \in {"string", "object"}
  /\ resp[r].encoding = NoEncoding

\* the content-type value, or the empty string when there is none
ValueOrEmpty(contentType) == IF Truthy(contentType) THEN contentType ELSE <<>>

\* no segment of the content-type value is a charset parameter
CharsetAbsent(contentType) ==
  \A i \in 1..Len(Split(ValueOrEmpty(contentType), ";")) :
    ~IsCharsetDirective(Split(Split(ValueOrEmpty(contentType), ";")[i], "="))

\* the charset the options give when the header declares none
ConfiguredCharset(opts) ==
  IF Truthy(opts.defaultCharset) THEN opts.defaultCharset ELSE <<"utf-8">>

\* the content-type value with ';charset=<resolved>' appended
WithCharset(contentType, opts) ==
  ValueOrEmpty(contentType) \o <<";", "charset", "=">> \o ConfiguredCharset(opts)

\* the step appends the charset to the content-type header of response r
MustAppendCharset(r) ==
  /\ IsFirstTextStep(r)
  /\ ~resp[r].headersSent
  /\ resp[r].opts.setCharset
  /\ CharsetAbsent(resp[r].contentType)

\* the step runs the JSON media-type rewrite on response r
RewritesJSON(r) ==
  /\ DataChunk(r).type = "object"
  /\ resp[r].opts.setJSON
  /\ ~resp[r].hasSetJSON

EndsWith(s, suffix) ==
  /\ Len(s) >= Len(suffix)
  /\ SubSeq(s, Len(s) - Len(suffix) + 1, Len(s)) = suffix

\* once the headers are sent no step changes the content-type header
SentHeaderFrozen(r) ==
  resp[r].headersSent => resp'[r].contentType = resp[r].contentType

\* C16 as stated: once headersSent is true no step changes the content-type
\* header; while it is false, with setCharset configured and no charset in
\* the header, the first string or structured chunk leaves the header as the
\* old value followed by ';charset=<resolved>'.
C16_AsStated ==
  [][\A r \in Resp :
       /\ SentHeaderFrozen(r)
       /\ MustAppendCharset(r) =>
            resp'[r].contentType = WithCharset(resp[r].contentType, resp[r].opts)]_vars

\* C16: once headersSent is true no step changes the content-type header;
\* while it is false, with setCharset configured and no charset in the
\* header, the first string or structured chunk appends ';charset=<resolved>':
\* the header then ends with it, and the text before it is the old value
\* unless the chunk is structured and setJSON is configured, the case in
\* which the JSON rewrite runs on the same chunk.
C16_HeadersSentLatch ==
  [][\A r \in Resp :
       /\ SentHeaderFrozen(r)
       /\ MustAppendCharset(r) =>
            /\ EndsWith(resp'[r].contentType,
                        <<";", "charset", "=">> \o ConfiguredCharset(resp[r].opts))
            /\ resp'[r].charset = ConfiguredCharset(resp[r].opts)
            /\ ~RewritesJSON(r) =>
                 resp'[r].contentType = WithCharset(resp[r].contentType, resp[r].opts)]_vars

\* C16 witness: the first string chunk appended the charset to text/plain,
\* then the headers were sent, then a structured chunk arrived with setJSON
\* configured and the header stayed as it was
C16_Witness ==
  \E r \in Live :
    /\ resp[r].headersSent
    /\ resp[r].opts.setCharset
    /\ resp[r].opts.setJSON
    /\ Len(resp[r].arrived) = 2
    /\ resp[r].arrived[1].type = "string"
    /\ resp[r].arrived[2].type = "object"
    /\ resp[r].hdrChanges = 0
    /\ resp[r].hdrWrites = 1
    /\ resp[r].jsonLog = <<>>
    /\ resp[r].contentType = <<"text/plain", ";", "charset", "=", "utf-8">>

\* only raw-byte chunks have arrived on the response
OnlyRaw(s) == \A i \in 1..Len(s.arrived) : s.arrived[i].type = "buffer"

\* the closure of a call that has handled no chunk yet, on response s
FreshClosure(s) ==
  [s EXCEPT !.charset = Null, !.encoding = NoEncoding, !.hasSetJSON = FALSE,
            !.pendingChunks = <<>>]

\* the transcoder has not touched the content-type header of the response
HeaderUntouched(s) ==
  /\ ~s.ctRead
  /\ s.hdrWrites = 0
  /\ s.charset = Null
  /\ s.encoding = NoEncoding

\* C18: while only raw-byte chunks have arrived on a response the transcoder
\* has neither read nor written its content-type header and has resolved
\* nothing; the first string chunk after them resolves the charset as a call
\* that has seen no chunk would from the header as it is at that moment.
C18_RawBytes ==
  /\ [](\A r \in Live : OnlyRaw(resp[r]) => HeaderUntouched(resp[r]))
  /\ [][\A r \in Resp :
          (IsDataStep(r) /\ OnlyRaw(resp[r]) /\ DataChunk(r).type = "string") =>
            /\ resp'[r].charset = ParseCharset(FreshClosure(resp[r])).st.charset
            /\ resp'[r].contentType = ParseCharset(FreshClosure(resp[r])).st.contentType]_vars

\* C18 witness: with both header options configured a raw-byte chunk arrived,
\* another party set the header to declare hex, and the string chunk that
\* followed was encoded as hex
C18_Witness ==
  \E r \in Live :
    /\ resp[r].opts.setCharset
    /\ resp[r].opts.setJSON
    /\ ~resp[r].headersSent
    /\ Len(resp[r].arrived) = 2
    /\ resp[r].arrived[1].type = "buffer"
    /\ resp[r].arrived[2].type = "string"
    /\ resp[r].hdrChanges = 1
    /\ ~resp[r].changedAfterResolve
    /\ resp[r].encoding = "hex"

\* the response a chunk number was written to
OwnerOf(n) == ((n - 1) \div MaxChunks) + 1

\* every chunk of the sequence was made from a chunk written to response r
AllOwnedBy(chunks, r) ==
  \A i \in 1..Len(chunks) :
    chunks[i] # UndefinedChunk => OwnerOf(chunks[i].val[2]) = r

\* every encoded chunk of the sequence carries the encoding
AllEncodedAs(chunks, encoding) ==
  \A i \in 1..Len(chunks) : IsEncoded(chunks[i]) => chunks[i].val[3] = encoding

HasArrived(s, types) == \E i \in 1..Len(s.arrived) : s.arrived[i].type \in types

\* what the handlers of response r keep and forward comes from its own events
OwnStateOnly(r) ==
  /\ AllOwnedBy(Writes(resp[r]), r)
  /\ AllOwnedBy(resp[r].pendingChunks, r)
  /\ AllEncodedAs(Writes(resp[r]), resp[r].encoding)
  /\ AllEncodedAs(resp[r].pendingChunks, resp[r].encoding)
  /\ resp[r].encoding # NoEncoding => HasArrived(resp[r], {"string", "object"})
  /\ resp[r].hasSetJSON => HasArrived(resp[r], {"object"})

\* the step is an event of response r: the middleware call on it, a write or
\* end() by the application, a 'data' or the 'end' event of its stream
IsEventOf(r) ==
  \/ resp'[r].pc # resp[r].pc
  \/ resp'[r].nWritten # resp[r].nWritten
  \/ resp'[r].endCalled # resp[r].endCalled
  \/ resp'[r].arrived # resp[r].arrived
  \/ resp'[r].ended # resp[r].ended

\* C17: with two responses handled at once by one middleware instance, an
\* event of one response leaves everything of the other as it was (resolved
\* charset and encoding, pending queue, JSON flag, forward target), each
\* forward target and pending queue holds only chunks written to its own
\* response, encoded with its own encoding, and a response has an encoding
\* or the JSON flag only after a chunk of its own that sets it.
C17_Isolation ==
  /\ [](\A r \in Live : OwnStateOnly(r))
  /\ [][\A r \in Resp : IsEventOf(r) => \A q \in Resp \ {r} : resp'[q] = resp[q]]_vars

\* C17 witness: response 1 resolved latin1 from its header, took a chunk after
\* end() and has completed; response 2 resolved utf-8, set the JSON media type
\* and still holds a late chunk of its own in its queue
C17_Witness ==
  /\ Live = Resp
  /\ resp[1].ended
  /\ resp[1].encoding = "latin1"
  /\ ~resp[1].hasSetJSON
  /\ resp[1].nDirect < Len(resp[1].arrived)
  /\ Len(Writes(resp[1])) = Len(resp[1].arrived)
  /\ ~resp[2].ended
  /\ resp[2].encoding = "utf-8"
  /\ resp[2].hasSetJSON
  /\ resp[2].pendingChunks # <<>>

====
